---- MODULE Spec2Model ----
(***************************************************************************)
(* Snowbot: the forecast decoder (parseSnowForecasts, edr.ts) and the      *)
(* window aggregator (getSnowWindows / formatWindow, worker index.ts).     *)
(*                                                                         *)
(* ISO-8601 instant strings are modelled by the epoch second they denote   *)
(* (new Date(s).getTime() = 1000 * second).  A JavaScript value that may   *)
(* be undefined is a record [def, val].                                    *)
(***************************************************************************)
EXTENDS Integers, Sequences, FiniteSets, TLC

VARIABLES
    covjson,     \* decode argument: the CovJSON response
    locations,   \* decode argument: the ordered location list
    dec,         \* outcome of the parseSnowForecasts call
    timestamps,  \* getSnowWindows argument: the timestamp sequence
    timezone,    \* getSnowWindows argument: [def, val] (undefined or a string)
    hour24,      \* the engine renders midnight as "24" under hour12: false
    agg,         \* frame of the getSnowWindows call
    calls,       \* getSnowWindows calls in flight together: arguments and frame of each
    mem,         \* the objects of the heap that decode reads and builds
    hook,        \* POST /api/on-forecast-update: environment, request, progress, effects
    store,       \* the location store and the add request being handled
    cache        \* the web client's ["locations"] query cache and its mutations

vars == <<covjson, locations, dec, timestamps, timezone, hour24, agg, calls, mem,
          hook, store, cache>>

decodeVars == <<covjson, locations, dec>>
aggVars == <<timestamps, timezone, hour24, agg>>
heapVars == <<calls, mem>>
appVars == <<hook, store, cache>>

(***************************************************************************)
(* Bounds of the model.                                                    *)
(***************************************************************************)
MaxT == 2        \* longest time axis
MaxN == 2        \* longest location list
MaxVals == 4     \* longest value array
MaxChunks == 2   \* most chunks of a nested time axis
MaxLen == 3      \* longest timestamp sequence given to getSnowWindows

(***************************************************************************)
(* Instants.  BaseTime is 2024-01-19T00:00:00Z.                            *)
(***************************************************************************)
SecondsPerHour == 60 * 60
SecondsPerDay == 24 * SecondsPerHour
BaseTime == 19741 * SecondsPerDay

HourAt(k) == BaseTime + k * SecondsPerHour

Undefined == [def |-> FALSE, val |-> 0]
Defined(v) == [def |-> TRUE, val |-> v]

Min(a, b) == IF a <= b THEN a ELSE b

(***************************************************************************)
(* Location records (locations.ts).                                        *)
(***************************************************************************)
Roster ==
    <<[id |-> "loc-1", name |-> "Tahoe City", lat |-> 39, lon |-> -120,
       timezone |-> Defined("America/Los_Angeles")],
      [id |-> "loc-2", name |-> "Stowe", lat |-> 44, lon |-> -73,
       timezone |-> Defined("America/New_York")],
      [id |-> "loc-3", name |-> "Leh", lat |-> 34, lon |-> 78,
       timezone |-> Undefined],
      [id |-> "loc-4", name |-> "Niseko", lat |-> 43, lon |-> 141,
       timezone |-> Defined("Asia/Tokyo")]>>

Location == {Roster[i] : i \in DOMAIN Roster}

Reverse(s) == [i \in 1..Len(s) |-> s[Len(s) + 1 - i]]

RosterPrefix(n) == SubSeq(Roster, 1, Min(n, Len(Roster)))

LocationLists ==
    UNION {{RosterPrefix(n), Reverse(RosterPrefix(n))} : n \in 0..MaxN}

(***************************************************************************)
(* CovJsonResponse (edr.ts).  domain.axes.t.values is string[] or          *)
(* string[][]: an element of tValues is a string (isArr = FALSE, str) or   *)
(* an array of strings (isArr = TRUE, arr).  hasRange: the object          *)
(* ranges.categorical_snow_surface is there; hasValues: its values field   *)
(* is there; hasT: domain.axes.t.values is there.                          *)
(***************************************************************************)
Codes == {0, 1, 2}

\* a JSON null in the value array: a token that equals no number
JsNull == -1000
OtherCodes == {-1, JsNull}

StrElem(s) == [isArr |-> FALSE, str |-> s, arr |-> <<>>]
ArrElem(a) == [isArr |-> TRUE, str |-> 0, arr |-> a]

Ascending(n) == [i \in 1..n |-> HourAt(i - 1)]
Descending(n) == [i \in 1..n |-> HourAt(n - i)]
Repeated(n) == [i \in 1..n |-> HourAt(0)]

InstantSeqs == UNION {{Ascending(n), Descending(n), Repeated(n)} : n \in 0..MaxT}

FlatAxis(s) == [i \in 1..Len(s) |-> StrElem(s[i])]

\* the ways of cutting s into exactly k consecutive chunks, empty chunks included
RECURSIVE Chunkings(_, _)
Chunkings(s, k) ==
    IF k = 1 THEN {<<s>>}
    ELSE UNION {{<<SubSeq(s, 1, i)>> \o rest :
                    rest \in Chunkings(SubSeq(s, i + 1, Len(s)), k - 1)} :
                i \in 0..Len(s)}

NestedAxis(chunks) == [i \in 1..Len(chunks) |-> ArrElem(chunks[i])]

FlatAxes == {FlatAxis(s) : s \in InstantSeqs}
NestedAxes ==
    UNION {UNION {{NestedAxis(c) : c \in Chunkings(s, k)} : k \in 1..MaxChunks} :
           s \in InstantSeqs}

ValueArrays ==
    UNION {[1..n -> Codes] : n \in 0..MaxVals}
    \cup UNION {UNION {[1..n -> {1, c}] : c \in OtherCodes} : n \in 0..MaxVals}

CovJsonResponse ==
    {[hasRange |-> TRUE, hasValues |-> TRUE, values |-> v, hasT |-> TRUE, tValues |-> a] :
        v \in ValueArrays, a \in FlatAxes \cup NestedAxes}
    \cup
    {[hasRange |-> r, hasValues |-> FALSE, values |-> <<>>, hasT |-> TRUE, tValues |-> a] :
        r \in BOOLEAN, a \in FlatAxes \cup NestedAxes}
    \cup
    {[hasRange |-> TRUE, hasValues |-> h, values |-> v, hasT |-> FALSE, tValues |-> <<>>] :
        h \in BOOLEAN, v \in {<<>>, <<1>>}}

(***************************************************************************)
(* parseSnowForecasts (edr.ts).                                            *)
(***************************************************************************)
\* a[i] of a JavaScript array, i counted from 0: undefined outside the array
JsIndex(a, i) == IF i + 1 \in DOMAIN a THEN Defined(a[i + 1]) ELSE Undefined

\* Array.isArray(tValues[0])
FirstIsArray(tValues) ==
    LET first == JsIndex(tValues, 0) IN first.def /\ first.val.isArr

\* Array.prototype.flat(): one level
RECURSIVE JsFlat(_)
JsFlat(a) ==
    IF a = <<>> THEN <<>>
    ELSE (IF Head(a).isArr THEN Head(a).arr ELSE <<Head(a).str>>) \o JsFlat(Tail(a))

\* mutant: tValues[0] taken for the flattened axis
AxisTimestampsFirstChunk(tValues) ==
    IF FirstIsArray(tValues) THEN tValues[1].arr
    ELSE [i \in 1..Len(tValues) |-> tValues[i].str]

\* lines 115-121: the flat timestamp array
AxisTimestamps(tValues) ==
    IF FirstIsArray(tValues) THEN JsFlat(tValues)
    ELSE [i \in 1..Len(tValues) |-> tValues[i].str]

\* mutant: column-major index
FlatIndexColumnMajor(t, p, nPoints) == p * nPoints + t

\* line 133: row-major index
FlatIndex(t, p, nPoints) == t * nPoints + p

\* mutant: values[idx] !== 0
IsSnowNotZero(values, idx) ==
    LET v == JsIndex(values, idx) IN ~(v.def /\ v.val = 0)

\* mutant: if (values[idx]), any truthy value counts
IsSnowTruthy(values, idx) ==
    LET v == JsIndex(values, idx) IN v.def /\ v.val \notin {0, JsNull}

\* line 134: values[idx] === 1
IsSnow(values, idx) ==
    LET v == JsIndex(values, idx) IN v.def /\ v.val = 1

\* mutant: unshift instead of push, the newest timestamp first
RECURSIVE SnowTimestampsNewestFirst(_, _, _, _, _)
SnowTimestampsNewestFirst(values, ts, nPoints, p, t) ==
    IF t >= Len(ts) THEN <<>>
    ELSE SnowTimestampsNewestFirst(values, ts, nPoints, p, t + 1)
         \o (IF IsSnow(values, FlatIndex(t, p, nPoints)) THEN <<ts[t + 1]>> ELSE <<>>)

\* lines 129-137: the inner loop for location p, from time index t on
RECURSIVE SnowTimestamps(_, _, _, _, _)
SnowTimestamps(values, ts, nPoints, p, t) ==
    IF t >= Len(ts) THEN <<>>
    ELSE (IF IsSnow(values, FlatIndex(t, p, nPoints)) THEN <<ts[t + 1]>> ELSE <<>>)
         \o SnowTimestamps(values, ts, nPoints, p, t + 1)

\* mutant: only the locations with snow are pushed
ForecastsWithSnowOnly(values, ts, locs) ==
    SelectSeq([i \in 1..Len(locs) |->
                  [location |-> locs[i],
                   snowTimestamps |-> SnowTimestamps(values, ts, Len(locs), i - 1, 0)]],
              LAMBDA f : f.snowTimestamps # <<>>)

\* lines 128-143: one forecast per location, in list order
Forecasts(values, ts, locs) ==
    [i \in 1..Len(locs) |->
        [location |-> locs[i],
         snowTimestamps |-> SnowTimestamps(values, ts, Len(locs), i - 1, 0)]]

Returned(fs) == [status |-> "returned", forecasts |-> fs, error |-> "none"]
Threw(e) == [status |-> "threw", forecasts |-> <<>>, error |-> e]
NotCalled == [status |-> "idle", forecasts |-> <<>>, error |-> "none"]

\* mutant: values is checked before the loops
ReadsUndefinedValuesEagerly(cj, ts, locs) == ~cj.hasValues

\* line 134 reads values[idx]: a TypeError when values is undefined and the
\* inner loop body runs at all
ReadsUndefinedValues(cj, ts, locs) ==
    ~cj.hasValues /\ Len(locs) > 0 /\ Len(ts) > 0

parseSnowForecasts(cj, locs) ==
    IF ~cj.hasRange THEN Threw("TypeError")          \* line 112: range.values
    ELSE IF ~cj.hasT THEN Threw("TypeError")         \* line 117: tValues[0]
    ELSE LET ts == AxisTimestamps(cj.tValues) IN
         IF ReadsUndefinedValues(cj, ts, locs) THEN Threw("TypeError")
         ELSE Returned(Forecasts(cj.values, ts, locs))

(***************************************************************************)
(* Time zones (Intl.DateTimeFormat).  KnownZones are the IANA identifiers  *)
(* the model's engine recognizes, each with its offset from UTC during the *)
(* days the model's instants lie in (January 2024, no transition).         *)
(***************************************************************************)
KnownZones ==
    {"UTC", "America/New_York", "America/Los_Angeles", "Asia/Kolkata", "Asia/Tokyo"}

ZoneOffset(zone, instant) ==
    CASE zone = "UTC" -> 0
      [] zone = "America/New_York" -> -5 * SecondsPerHour
      [] zone = "America/Los_Angeles" -> -8 * SecondsPerHour
      [] zone = "Asia/Kolkata" -> 5 * SecondsPerHour + 30 * 60
      [] zone = "Asia/Tokyo" -> 9 * SecondsPerHour

Timezones ==
    {Undefined, Defined(""), Defined("UTC"), Defined("America/New_York"),
     Defined("Asia/Kolkata"), Defined("Mars/Olympus_Mons")}

\* timeZone: timezone || "UTC" (undefined and "" are falsy)
TimeZoneOption(tz) == IF tz.def /\ tz.val # "" THEN tz.val ELSE "UTC"

\* new Intl.DateTimeFormat(..., {timeZone}) raises a RangeError for an
\* identifier it does not recognize
InvalidTimeZone(tz) == TimeZoneOption(tz) \notin KnownZones

\* wall-clock fields of an instant in a zone
LocalSeconds(date, zone) == date + ZoneOffset(zone, date)
LocalDay(date, zone) == LocalSeconds(date, zone) \div SecondsPerDay
LocalHour(date, zone) == (LocalSeconds(date, zone) % SecondsPerDay) \div SecondsPerHour
LocalWeekday(date, zone) == (LocalDay(date, zone) + 4) % 7

\* proleptic Gregorian month and day of a day number counted from 1970-01-01
DayOfEra(day) == (day + 719468) % 146097
YearOfEra(day) ==
    LET doe == DayOfEra(day) IN
    (doe - doe \div 1460 + doe \div 36524 - doe \div 146096) \div 365
DayOfYear(day) ==
    LET yoe == YearOfEra(day) IN
    DayOfEra(day) - (365 * yoe + yoe \div 4 - yoe \div 100)
MonthIndex(day) == (5 * DayOfYear(day) + 2) \div 153
DayOfMonth(day) == DayOfYear(day) - (153 * MonthIndex(day) + 2) \div 5 + 1
MonthOfYear(day) ==
    IF MonthIndex(day) < 10 THEN MonthIndex(day) + 3 ELSE MonthIndex(day) - 9

WeekdayNames == <<"Sun", "Mon", "Tue", "Wed", "Thu", "Fri", "Sat">>

(***************************************************************************)
(* formatHour, formatDate, formatWindow (worker index.ts).                 *)
(***************************************************************************)
\* lines 14-19: parseInt of the hour Intl formats under hour12: false; an
\* engine that resolves hour12: false to the h24 cycle writes midnight as "24"
IntlHour(date, tz) ==
    LET h == LocalHour(date, TimeZoneOption(tz)) IN
    IF hour24 /\ h = 0 THEN 24 ELSE h

\* lines 13-24
formatHour(date, tz) ==
    LET h == IntlHour(date, tz) IN
    IF h = 0 THEN "12am"
    ELSE IF h = 12 THEN "12pm"
    ELSE IF h < 12 THEN ToString(h) \o "am"
    ELSE ToString(h - 12) \o "pm"

\* lines 27-39
formatDate(date, tz) ==
    LET zone == TimeZoneOption(tz)
        day == LocalDay(date, zone)
    IN WeekdayNames[LocalWeekday(date, zone) + 1] \o " "
       \o ToString(MonthOfYear(day)) \o "/" \o ToString(DayOfMonth(day))

\* mutant: a window on one date is always rendered as a range
formatWindowAlwaysRange(start, end, tz) ==
    LET startDate == formatDate(start, tz)
        endDate == formatDate(end, tz)
        startHour == formatHour(start, tz)
        endHour == formatHour(end, tz)
    IN IF startDate = endDate
       THEN startDate \o " " \o startHour \o "-" \o endHour
       ELSE startDate \o " " \o startHour \o " - " \o endDate \o " " \o endHour

\* lines 42-58; called only where the Intl constructors do not raise
formatWindow(start, end, tz) ==
    LET startDate == formatDate(start, tz)
        endDate == formatDate(end, tz)
        startHour == formatHour(start, tz)
        endHour == formatHour(end, tz)
    IN IF startDate = endDate
       THEN IF start = end
            THEN startDate \o " " \o startHour
            ELSE startDate \o " " \o startHour \o "-" \o endHour
       ELSE startDate \o " " \o startHour \o " - " \o endDate \o " " \o endHour

(***************************************************************************)
(* getSnowWindows (worker index.ts).  The frame of a call: pc, the loop    *)
(* index i, windowStart and windowEnd, the windows pushed so far.  Beside  *)
(* each pushed string, spans records the window it renders: its start and  *)
(* end instants and the input positions first..last it was built from      *)
(* (startIdx, endIdx follow windowStart, windowEnd).                       *)
(***************************************************************************)
MsPerHour == 1000 * 60 * 60

AggIdle ==
    [pc |-> "idle", i |-> 0, windowStart |-> 0, windowEnd |-> 0,
     startIdx |-> 0, endIdx |-> 0, windows |-> <<>>, spans |-> <<>>,
     error |-> "none"]

\* mutant: no early return for an empty list; new Date(undefined) starts a window
EnterAlways(ts) ==
    [AggIdle EXCEPT !.pc = "loop", !.i = 1,
                    !.windowStart = IF ts = <<>> THEN 0 ELSE ts[1],
                    !.windowEnd = IF ts = <<>> THEN 0 ELSE ts[1],
                    !.startIdx = 1, !.endIdx = 1]

\* lines 62-66
Enter(ts) ==
    IF Len(ts) = 0 THEN [AggIdle EXCEPT !.pc = "done"]
    ELSE [AggIdle EXCEPT !.pc = "loop", !.i = 1,
                         !.windowStart = ts[1], !.windowEnd = ts[1],
                         !.startIdx = 1, !.endIdx = 1]

\* mutant: the gap is measured from the start of the window
MsSinceWindowStart(f, currDate) == (currDate - f.windowStart) * 1000

\* line 70: currDate.getTime() - windowEnd.getTime()
MsSinceWindowEnd(f, currDate) == (currDate - f.windowEnd) * 1000

\* mutant: hoursDiff < 1
LessThanOneHour(ms) == ms < MsPerHour

\* mutant: Math.abs(hoursDiff) <= 1
WithinOneHourEitherWay(ms) == ms <= MsPerHour /\ -ms <= MsPerHour

\* lines 70, 72: hoursDiff <= 1, hoursDiff being ms / (1000 * 60 * 60)
AtMostOneHour(ms) == ms <= MsPerHour

\* mutant: the start of the window is moved instead of its end
ExtendWindowMovesStart(f, currDate, idx) ==
    [f EXCEPT !.windowStart = currDate, !.startIdx = idx]

\* line 74
ExtendWindow(f, currDate, idx) ==
    [f EXCEPT !.windowEnd = currDate, !.endIdx = idx]

\* lines 77, 84: windows.push(formatWindow(windowStart, windowEnd, timezone))
PushWindow(f, tz) ==
    IF InvalidTimeZone(tz)
    THEN [f EXCEPT !.pc = "threw", !.error = "RangeError"]
    ELSE [f EXCEPT !.windows = Append(@, formatWindow(f.windowStart, f.windowEnd, tz)),
                   !.spans = Append(@, [start |-> f.windowStart, end |-> f.windowEnd,
                                        first |-> f.startIdx, last |-> f.endIdx])]

\* mutant: after a push only windowStart is set to the current timestamp
SplitWindowKeepsEnd(f, currDate, idx, tz) ==
    LET g == PushWindow(f, tz) IN
    IF g.pc = "threw" THEN g
    ELSE [g EXCEPT !.windowStart = currDate, !.startIdx = idx]

\* lines 77-79
SplitWindow(f, currDate, idx, tz) ==
    LET g == PushWindow(f, tz) IN
    IF g.pc = "threw" THEN g
    ELSE [g EXCEPT !.windowStart = currDate, !.windowEnd = currDate,
                   !.startIdx = idx, !.endIdx = idx]

\* mutant: a window is also closed when the local calendar date changes
StepSplitsAtLocalMidnight(f, ts, tz) ==
    LET currDate == ts[f.i + 1]
        sameDate == \/ InvalidTimeZone(tz)
                    \/ LocalDay(currDate, TimeZoneOption(tz))
                          = LocalDay(f.windowEnd, TimeZoneOption(tz))
        g == IF AtMostOneHour(MsSinceWindowEnd(f, currDate)) /\ sameDate
             THEN ExtendWindow(f, currDate, f.i + 1)
             ELSE SplitWindow(f, currDate, f.i + 1, tz)
    IN IF g.pc = "threw" THEN g ELSE [g EXCEPT !.i = f.i + 1]

\* lines 68-81: the loop body for i, and i++
Step(f, ts, tz) ==
    LET currDate == ts[f.i + 1]
        g == IF AtMostOneHour(MsSinceWindowEnd(f, currDate))
             THEN ExtendWindow(f, currDate, f.i + 1)
             ELSE SplitWindow(f, currDate, f.i + 1, tz)
    IN IF g.pc = "threw" THEN g ELSE [g EXCEPT !.i = f.i + 1]

\* mutant: the window still open after the loop is not pushed
FinishWithoutPush(f, tz) == [f EXCEPT !.pc = "done"]

\* mutant: the window still open after the loop is pushed only if it spans
\* more than one instant
FinishSkipsSingleInstant(f, tz) ==
    IF f.windowStart = f.windowEnd THEN [f EXCEPT !.pc = "done"]
    ELSE LET g == PushWindow(f, tz) IN
         IF g.pc = "threw" THEN g ELSE [g EXCEPT !.pc = "done"]

\* lines 83-86
Finish(f, tz) ==
    LET g == PushWindow(f, tz) IN
    IF g.pc = "threw" THEN g ELSE [g EXCEPT !.pc = "done"]

\* the whole call, from frame f on
RECURSIVE Run(_, _, _)
Run(f, ts, tz) ==
    IF f.pc # "loop" THEN f
    ELSE IF f.i < Len(ts) THEN Run(Step(f, ts, tz), ts, tz)
    ELSE Finish(f, tz)

getSnowWindows(ts, tz) == Run(Enter(ts), ts, tz)

(***************************************************************************)
(* The UTC-only renderer (src/index.ts): formatHour(hour), formatDate,     *)
(* getSnowWindows(timestamps) and formatWindow read the UTC fields of the  *)
(* Date (getUTCDay, getUTCMonth, getUTCDate, getUTCHours).                 *)
(***************************************************************************)
getUTCHours(date) == (date % SecondsPerDay) \div SecondsPerHour
getUTCDay(date) == ((date \div SecondsPerDay) + 4) % 7
getUTCMonth(date) == MonthOfYear(date \div SecondsPerDay) - 1
getUTCDate(date) == DayOfMonth(date \div SecondsPerDay)

\* index.ts lines 27-32
formatHourUTC(hour) ==
    IF hour = 0 THEN "12am"
    ELSE IF hour = 12 THEN "12pm"
    ELSE IF hour < 12 THEN ToString(hour) \o "am"
    ELSE ToString(hour - 12) \o "pm"

\* index.ts lines 35-41
formatDateUTC(date) ==
    LET days == <<"Sun", "Mon", "Tue", "Wed", "Thu", "Fri", "Sat">>
        dayName == days[getUTCDay(date) + 1]
        month == getUTCMonth(date) + 1
        day == getUTCDate(date)
    IN dayName \o " " \o ToString(month) \o "/" \o ToString(day)

\* index.ts lines 73-89
formatWindowUTC(start, end) ==
    LET startDate == formatDateUTC(start)
        endDate == formatDateUTC(end)
        startHour == formatHourUTC(getUTCHours(start))
        endHour == formatHourUTC(getUTCHours(end))
    IN IF startDate = endDate
       THEN IF start = end
            THEN startDate \o " " \o startHour
            ELSE startDate \o " " \o startHour \o "-" \o endHour
       ELSE startDate \o " " \o startHour \o " - " \o endDate \o " " \o endHour

\* index.ts lines 51-69: the loop from index i on, and the final window
RECURSIVE WindowsUTCFrom(_, _, _, _, _)
WindowsUTCFrom(ts, i, windowStart, windowEnd, windows) ==
    IF i >= Len(ts) THEN Append(windows, formatWindowUTC(windowStart, windowEnd))
    ELSE LET currDate == ts[i + 1] IN
         IF (currDate - windowEnd) * 1000 <= MsPerHour
         THEN WindowsUTCFrom(ts, i + 1, windowStart, currDate, windows)
         ELSE WindowsUTCFrom(ts, i + 1, currDate, currDate,
                             Append(windows, formatWindowUTC(windowStart, windowEnd)))

\* index.ts lines 44-70
getSnowWindowsUTC(ts) ==
    IF Len(ts) = 0 THEN <<>>
    ELSE WindowsUTCFrom(ts, 1, ts[1], ts[1], <<>>)

(***************************************************************************)
(* Several getSnowWindows calls at once.  windows, windowStart, windowEnd  *)
(* and i are locals of a call (lines 62-68), so each call has a frame of   *)
(* its own; a step of call c is a loop iteration of c.                     *)
(***************************************************************************)
CallIds == {1, 2}

NoCalls ==
    [c \in CallIds |-> [timestamps |-> <<>>, timezone |-> Undefined, frame |-> AggIdle]]

\* lines 62-66 in call c
CallEntered(cs, c) == [cs EXCEPT ![c].frame = Enter(cs[c].timestamps)]

\* mutant: windowStart and windowEnd are module variables, one pair for all calls
CallSteppedSharedWindow(cs, c) ==
    LET f == Step(cs[c].frame, cs[c].timestamps, cs[c].timezone) IN
    [d \in CallIds |->
        IF d = c THEN [cs[c] EXCEPT !.frame = f]
        ELSE [cs[d] EXCEPT !.frame.windowStart = f.windowStart,
                           !.frame.windowEnd = f.windowEnd]]

\* lines 68-81 in call c
CallStepped(cs, c) ==
    [cs EXCEPT ![c].frame = Step(cs[c].frame, cs[c].timestamps, cs[c].timezone)]

\* lines 83-86 in call c
CallFinished(cs, c) == [cs EXCEPT ![c].frame = Finish(cs[c].frame, cs[c].timezone)]

(***************************************************************************)
(* The heap.  An object is named by its address, its index in the heap of  *)
(* its kind: recs holds the Location records, arrs the string arrays,      *)
(* fobjs the SnowForecast objects {location, snowTimestamps} (addresses of *)
(* a record and of an array), lists the arrays of references.  vals is the *)
(* value array.  results[k] is the address of the list that decode call k  *)
(* returned, 0 before the call.  touched[k], shared and windows record     *)
(* what the caller did with the results.                                   *)
(***************************************************************************)
DecodeIds == {1, 2}

NoMemory ==
    [recs |-> <<>>, arrs |-> <<>>, fobjs |-> <<>>, lists |-> <<>>, vals |-> <<>>,
     results |-> [k \in DecodeIds |-> 0],
     touched |-> [k \in DecodeIds |-> FALSE],
     shared |-> FALSE,
     windows |-> Undefined]

\* the arguments of decode as objects: the location list is lists[1] and
\* its records recs[1..N], the time axis is arrs[1]
InitMemory(cj, locs) ==
    [NoMemory EXCEPT !.recs = locs,
                     !.lists = <<[i \in 1..Len(locs) |-> i]>>,
                     !.arrs = <<[i \in 1..Len(cj.tValues) |-> cj.tValues[i].str]>>,
                     !.vals = cj.values]

LocationListAddr == 1
TimeAxisAddr == 1

\* write content at address a of a heap, a being an address in use or the next free one
Store(heap, a, content) ==
    IF a \in DOMAIN heap THEN [heap EXCEPT ![a] = content] ELSE Append(heap, content)

\* mutant: one array per location index, kept at module level and reused by every call
TimelineAddrPerLocation(m, p) == TimeAxisAddr + p + 1

\* line 129: const snowTimestamps: string[] = [], a new array
TimelineAddr(m, p) == Len(m.arrs) + 1

\* lines 128-143 on the heap: for each forecast of fs from index p on, the
\* array of its timestamps and the object pushed at lines 139-142, whose
\* location is the reference locations[p] itself
RECURSIVE AllocForecasts(_, _, _)
AllocForecasts(m, fs, p) ==
    IF p >= Len(fs) THEN m
    ELSE LET a == TimelineAddr(m, p)
             withArr == [m EXCEPT !.arrs = Store(@, a, fs[p + 1].snowTimestamps)]
             withObj == [withArr EXCEPT !.fobjs =
                            Append(@, [location |-> fs[p + 1].location,
                                       snowTimestamps |-> a])]
         IN AllocForecasts(withObj, fs, p + 1)

\* parseSnowForecasts reading its arguments from the heap; call k returns
\* the new list forecasts (line 126)
DecodeOnHeap(m, k) ==
    LET cj == [hasRange |-> TRUE, hasValues |-> TRUE, values |-> m.vals,
               hasT |-> TRUE, tValues |-> FlatAxis(m.arrs[TimeAxisAddr])]
        out == parseSnowForecasts(cj, m.lists[LocationListAddr])
        built == AllocForecasts(m, out.forecasts, 0)
        forecasts == [i \in 1..Len(out.forecasts) |-> Len(m.fobjs) + i]
    IN [built EXCEPT !.lists = Append(@, forecasts),
                     !.results[k] = Len(m.lists) + 1]

\* the objects reached from result k
ResultList(m, k) == m.lists[m.results[k]]
ForecastObj(m, k, p) == m.fobjs[ResultList(m, k)[p + 1]]

\* the caller: result[p].snowTimestamps.push(x)
PushTimestamp(m, k, p, x) ==
    [m EXCEPT !.arrs[ForecastObj(m, k, p).snowTimestamps] = Append(@, x),
              !.touched[k] = TRUE]

\* the caller: result[p].snowTimestamps = []
AssignTimestamps(m, k, p) ==
    [m EXCEPT !.arrs = Append(@, <<>>),
              !.fobjs[ResultList(m, k)[p + 1]].snowTimestamps = Len(m.arrs) + 1,
              !.touched[k] = TRUE]

\* the caller: result.pop()
PopForecast(m, k) ==
    [m EXCEPT !.lists[m.results[k]] = SubSeq(@, 1, Len(@) - 1),
              !.touched[k] = TRUE]

\* the caller: result[p].location.name = name
RenameLocation(m, k, p, name) ==
    [m EXCEPT !.recs[ForecastObj(m, k, p).location].name = name,
              !.touched[k] = TRUE,
              !.shared = TRUE]

\* worker index.ts line 92: getSnowWindows(f.snowTimestamps, f.location.timezone)
AggregateOnHeap(m, k, p) ==
    LET f == ForecastObj(m, k, p) IN
    [m EXCEPT !.windows =
        Defined(getSnowWindows(m.arrs[f.snowTimestamps], m.recs[f.location].timezone).windows)]

(***************************************************************************)
(* The worker's handlers and the web client, each idle outside the         *)
(* specification of its own.                                               *)
(***************************************************************************)
NoHook == [pc |-> "off"]
NoStore == [pc |-> "off"]
NoCache == [pc |-> "off"]

(***************************************************************************)
(* The decoder alone: one call of parseSnowForecasts on every response and *)
(* location list within the bounds.                                        *)
(***************************************************************************)
InitDecode ==
    /\ covjson \in CovJsonResponse
    /\ locations \in LocationLists
    /\ dec = NotCalled
    /\ timestamps = <<>>
    /\ timezone = Undefined
    /\ hour24 = FALSE
    /\ agg = AggIdle
    /\ calls = NoCalls
    /\ mem = NoMemory
    /\ hook = NoHook
    /\ store = NoStore
    /\ cache = NoCache

Decode ==
    /\ dec.status = "idle"
    /\ dec' = parseSnowForecasts(covjson, locations)
    /\ UNCHANGED <<covjson, locations, aggVars, heapVars, appVars>>

NextDecode == Decode

SpecDecode == InitDecode /\ [][NextDecode]_vars

(***************************************************************************)
(* The aggregator alone: one call of getSnowWindows, a loop iteration per  *)
(* step, on every timestamp sequence over Instants within the bounds.      *)
(***************************************************************************)
Instants ==
    {HourAt(14), HourAt(15), HourAt(15) + 1, HourAt(16) + 1,
     HourAt(20), HourAt(23), HourAt(24)}

TimestampSeqs == UNION {[1..n -> Instants] : n \in 0..MaxLen}

EmptyResponse ==
    [hasRange |-> TRUE, hasValues |-> TRUE, values |-> <<>>, hasT |-> TRUE,
     tValues |-> <<>>]

InitAggregate ==
    /\ timestamps \in TimestampSeqs
    /\ timezone \in Timezones
    /\ hour24 \in BOOLEAN
    /\ agg = AggIdle
    /\ covjson = EmptyResponse
    /\ locations = <<>>
    /\ dec = NotCalled
    /\ calls = NoCalls
    /\ mem = NoMemory
    /\ hook = NoHook
    /\ store = NoStore
    /\ cache = NoCache

AggEnter ==
    /\ agg.pc = "idle"
    /\ agg' = Enter(timestamps)
    /\ UNCHANGED <<timestamps, timezone, hour24, decodeVars, heapVars, appVars>>

AggStep ==
    /\ agg.pc = "loop"
    /\ agg.i < Len(timestamps)
    /\ agg' = Step(agg, timestamps, timezone)
    /\ UNCHANGED <<timestamps, timezone, hour24, decodeVars, heapVars, appVars>>

AggFinish ==
    /\ agg.pc = "loop"
    /\ agg.i >= Len(timestamps)
    /\ agg' = Finish(agg, timezone)
    /\ UNCHANGED <<timestamps, timezone, hour24, decodeVars, heapVars, appVars>>

NextAggregate == AggEnter \/ AggStep \/ AggFinish

SpecAggregate == InitAggregate /\ [][NextAggregate]_vars

\* getSnowWindows is synchronous: once entered, the call runs on until it
\* returns or raises
SpecAggregateFair == SpecAggregate /\ WF_vars(NextAggregate)

(***************************************************************************)
(* Claims about the decoder, checked under SpecDecode.                     *)
(***************************************************************************)
Called == dec.status # "idle"
DidReturn == dec.status = "returned"
DidThrow == dec.status = "threw"

Complete(cj) == cj.hasRange /\ cj.hasValues /\ cj.hasT

IsNested(tValues) == tValues # <<>> /\ \A i \in DOMAIN tValues : tValues[i].isArr

\* the inner sequences of a nested axis, concatenated in order
RECURSIVE ConcatChunks(_)
ConcatChunks(tValues) ==
    IF tValues = <<>> THEN <<>>
    ELSE ConcatChunks(SubSeq(tValues, 1, Len(tValues) - 1)) \o tValues[Len(tValues)].arr

\* the time axis as the flat sequence of its instants
TimeAxis(cj) ==
    IF IsNested(cj.tValues) THEN ConcatChunks(cj.tValues)
    ELSE [i \in 1..Len(cj.tValues) |-> cj.tValues[i].str]

\* the time indices t in 0..T-1 whose value at t*N + p is there and equals 1
Positive(cj, N, p) ==
    {t \in 0..(Len(TimeAxis(cj)) - 1) :
        /\ t * N + p + 1 \in DOMAIN cj.values
        /\ cj.values[t * N + p + 1] = 1}

\* tl lists axis[t] for the t of hits, in ascending order of t, and nothing else
ListsExactly(tl, axis, hits) ==
    /\ Len(tl) = Cardinality(hits)
    /\ \A t \in hits : tl[Cardinality({u \in hits : u < t}) + 1] = axis[t + 1]

Timeline(p) == dec.forecasts[p + 1].snowTimestamps

\* C1: the timeline of location p holds exactly the timestamps[t], t ascending,
\* whose value at flattened index t*N + p equals 1, and no other timestamp.
C1_RowMajorTimelines ==
    DidReturn =>
        \A p \in 0..(Len(dec.forecasts) - 1) :
            ListsExactly(Timeline(p), TimeAxis(covjson),
                         Positive(covjson, Len(locations), p))

C1_Witness ==
    /\ DidReturn
    /\ Len(locations) = 2
    /\ covjson.values = <<1, 0, 0, 1>>
    /\ Timeline(0) = <<HourAt(0)>>
    /\ Timeline(1) = <<HourAt(1)>>

\* C2: decode returns exactly one timeline per input location, in the order of
\* the input list, entry p referring to locations[p]; a structurally complete
\* response always returns, also when every timeline is empty, T = 0 or N = 0.
C2_OnePerLocation ==
    /\ (Called /\ Complete(covjson)) => DidReturn
    /\ DidReturn =>
          /\ Len(dec.forecasts) = Len(locations)
          /\ \A i \in DOMAIN locations : dec.forecasts[i].location = locations[i]

C2_Witness ==
    /\ DidReturn
    /\ locations = Reverse(RosterPrefix(2))
    /\ covjson.tValues = <<>>
    /\ Len(dec.forecasts) = 2
    /\ \A i \in 1..2 : dec.forecasts[i].snowTimestamps = <<>>

\* C3: for a nested time axis decode gives the same outcome as for the flat
\* axis obtained by concatenating the inner sequences in order.
C3_NestedAsFlat ==
    (Called /\ covjson.hasT /\ IsNested(covjson.tValues)) =>
        dec = parseSnowForecasts(
                 [covjson EXCEPT !.tValues = FlatAxis(ConcatChunks(covjson.tValues))],
                 locations)

C3_Witness ==
    /\ DidReturn
    /\ covjson.tValues = NestedAxis(<<<<>>, Ascending(2)>>)
    /\ Len(locations) = 1
    /\ Timeline(0) = Ascending(2)

\* some index t*N + p, t < T, p < N, falls outside the value array
IndexOutside(cj, N) ==
    \E t \in 0..(Len(TimeAxis(cj)) - 1), p \in 0..(N - 1) :
        t * N + p >= Len(cj.values)

\* C4 as stated: when some index t*N + p falls outside the value array, decode
\* fails with an error instead of returning a list of timelines.
C4_Original ==
    (Called /\ Complete(covjson) /\ IndexOutside(covjson, Len(locations))) => DidThrow

\* C4 amended: when some index t*N + p falls outside the value array, decode
\* still returns one timeline per location; an index outside the array counts
\* as not positive, so each timeline holds exactly the in-range positives.
C4_OutOfRangeIsNoSnow ==
    (Called /\ Complete(covjson) /\ IndexOutside(covjson, Len(locations))) =>
        /\ DidReturn
        /\ Len(dec.forecasts) = Len(locations)
        /\ \A p \in 0..(Len(locations) - 1) :
              Len(Timeline(p)) = Cardinality(Positive(covjson, Len(locations), p))

C4_Witness ==
    /\ DidReturn
    /\ Complete(covjson)
    /\ Len(locations) = 2
    /\ covjson.tValues = FlatAxis(Ascending(2))
    /\ covjson.values = <<1, 1, 1>>
    /\ Timeline(0) = Ascending(2)
    /\ Timeline(1) = <<HourAt(0)>>

\* C5 as stated: a response that lacks the time axis or the value array never
\* yields a normal result, whatever the location list.
C5_Original ==
    (Called /\ ~Complete(covjson)) => DidThrow

\* C5 amended: a response without the time axis, or without the range object,
\* fails for every location list; a response whose range object has no value
\* array fails exactly when there is at least one location and one timestep,
\* and otherwise returns one empty timeline per location.
C5_MissingFields ==
    Called =>
        /\ (~covjson.hasT \/ ~covjson.hasRange) => DidThrow
        /\ (covjson.hasT /\ covjson.hasRange /\ ~covjson.hasValues) =>
              /\ DidThrow <=> (Len(locations) > 0 /\ Len(TimeAxis(covjson)) > 0)
              /\ DidReturn =>
                    /\ Len(dec.forecasts) = Len(locations)
                    /\ \A i \in DOMAIN dec.forecasts :
                          dec.forecasts[i].snowTimestamps = <<>>

C5_Witness ==
    /\ DidReturn
    /\ ~covjson.hasValues
    /\ Len(locations) = 2
    /\ covjson.tValues = <<>>
    /\ Len(dec.forecasts) = 2

(***************************************************************************)
(* Claims about the aggregator, checked under SpecAggregate.               *)
(***************************************************************************)
AggReturned == agg.pc = "done"
AggThrew == agg.pc = "threw"
AggEnded == AggReturned \/ AggThrew

\* the gap in seconds between input positions i and i + 1
Gap(i) == timestamps[i + 1] - timestamps[i]

\* the emitted windows that hold input position i
WindowsOf(i) == {k \in DOMAIN agg.spans : agg.spans[k].first <= i /\ i <= agg.spans[k].last}

NonDecreasing(ts) == \A i \in 1..(Len(ts) - 1) : ts[i] <= ts[i + 1]

\* C6: in a returned window list, two adjacent input timestamps are in the
\* same window if their gap is <= 3600 seconds and in different windows if
\* it is > 3600 seconds (3600 merges, 3601 splits).
C6_GapDecidesWindow ==
    AggReturned =>
        \A i \in 1..(Len(timestamps) - 1) :
            /\ WindowsOf(i) # {} /\ WindowsOf(i + 1) # {}
            /\ Gap(i) <= 3600 => WindowsOf(i) = WindowsOf(i + 1)
            /\ Gap(i) > 3600 => WindowsOf(i) \cap WindowsOf(i + 1) = {}

C6_Witness ==
    /\ AggReturned
    /\ timestamps = <<HourAt(14), HourAt(15), HourAt(16) + 1>>
    /\ Gap(1) = 3600 /\ Gap(2) = 3601
    /\ WindowsOf(1) = {1} /\ WindowsOf(2) = {1} /\ WindowsOf(3) = {2}

\* C7: the windows returned for a non-empty sequence partition it: each window
\* is a contiguous run first..last of the input rendered from its first and
\* last timestamp, the runs follow one another without gap or overlap from
\* position 1 to the last position, so every timestamp is in exactly one
\* window and the runs concatenated in emission order are the input.
C7_WindowsPartitionInput ==
    (AggReturned /\ timestamps # <<>>) =>
        /\ Len(agg.windows) = Len(agg.spans)
        /\ agg.spans # <<>>
        /\ agg.spans[1].first = 1
        /\ agg.spans[Len(agg.spans)].last = Len(timestamps)
        /\ \A k \in DOMAIN agg.spans :
              /\ agg.spans[k].first <= agg.spans[k].last
              /\ agg.spans[k].start = timestamps[agg.spans[k].first]
              /\ agg.spans[k].end = timestamps[agg.spans[k].last]
              /\ agg.windows[k] = formatWindow(timestamps[agg.spans[k].first],
                                               timestamps[agg.spans[k].last], timezone)
              /\ k < Len(agg.spans) => agg.spans[k + 1].first = agg.spans[k].last + 1
        /\ \A i \in DOMAIN timestamps : Cardinality(WindowsOf(i)) = 1

C7_Witness ==
    /\ AggReturned
    /\ timestamps = <<HourAt(15), HourAt(14), HourAt(20)>>
    /\ Len(agg.spans) = 2
    /\ agg.spans[1].first = 1 /\ agg.spans[1].last = 2
    /\ agg.spans[2].first = 3 /\ agg.spans[2].last = 3

\* C8: on an empty timestamp sequence the call returns an empty window list
\* and raises nothing, whatever the timezone (absent, valid or unrecognized).
C8_EmptyInputEmptyResult ==
    (agg.pc # "idle" /\ timestamps = <<>>) =>
        /\ AggReturned
        /\ agg.windows = <<>>
        /\ agg.error = "none"

C8_Witness ==
    /\ AggReturned
    /\ timestamps = <<>>
    /\ timezone = Defined("Mars/Olympus_Mons")
    /\ agg.windows = <<>>

\* C9: for a non-decreasing input the returned windows are in chronological
\* order and do not overlap: each starts more than 3600 seconds after the end
\* of the one emitted before it.
C9_WindowsApart ==
    (AggReturned /\ NonDecreasing(timestamps)) =>
        \A k \in DOMAIN agg.spans :
            /\ agg.spans[k].start <= agg.spans[k].end
            /\ k < Len(agg.spans) =>
                  agg.spans[k + 1].start - agg.spans[k].end > 3600

C9_Witness ==
    /\ AggReturned
    /\ timestamps = <<HourAt(14), HourAt(15), HourAt(16) + 1>>
    /\ Len(agg.spans) = 2
    /\ agg.spans[2].start - agg.spans[1].end = 3601

\* C10: with a timezone string that is no recognized IANA identifier the
\* rendering does not fail: the windows are those rendered with no zone
\* supplied, i.e. in UTC.
C10_UnknownZoneRendersUTC ==
    (AggEnded /\ timestamps # <<>> /\ timezone.def /\ timezone.val \notin KnownZones
        /\ timezone.val # "") =>
        /\ AggReturned
        /\ agg.windows = getSnowWindows(timestamps, Undefined).windows

\* the zone the call renders in, when the call does not raise
Zone == TimeZoneOption(timezone)

\* the label the claims give a wall-clock hour h in 0..23
HourLabel(h) ==
    IF h = 0 THEN "12am"
    ELSE IF h = 12 THEN "12pm"
    ELSE IF h <= 11 THEN ToString(h) \o "am"
    ELSE ToString(h - 12) \o "pm"

SameLocalDate(a, b) == LocalDay(a, Zone) = LocalDay(b, Zone)

\* a window rendered from its dates and the given hour labels
Rendering(start, end, startLabel, endLabel) ==
    IF start = end THEN formatDate(start, timezone) \o " " \o startLabel
    ELSE IF SameLocalDate(start, end)
    THEN formatDate(start, timezone) \o " " \o startLabel \o "-" \o endLabel
    ELSE formatDate(start, timezone) \o " " \o startLabel \o " - "
         \o formatDate(end, timezone) \o " " \o endLabel

\* C11: the hour label of every rendered window end is the one of its local
\* wall-clock hour h: 0 gives "12am", 12 gives "12pm", 1..11 "<h>am",
\* 13..23 "<h-12>pm"; local midnight is "12am" and never "12pm".
C11_HourLabels ==
    AggReturned =>
        \A k \in DOMAIN agg.spans :
            LET w == agg.spans[k] IN
            /\ formatHour(w.start, timezone) = HourLabel(LocalHour(w.start, Zone))
            /\ formatHour(w.end, timezone) = HourLabel(LocalHour(w.end, Zone))
            /\ agg.windows[k] = Rendering(w.start, w.end,
                                          HourLabel(LocalHour(w.start, Zone)),
                                          HourLabel(LocalHour(w.end, Zone)))

\* C12: a window with start # end is rendered "<Date> <StartHour>-<EndHour>"
\* exactly when start and end are on the same local calendar date, and
\* "<StartDate> <StartHour> - <EndDate> <EndHour>" otherwise; in UTC the input
\* 2024-01-19T23:00:00Z, 2024-01-20T00:00:00Z gives the single window
\* "Fri 1/19 11pm - Sat 1/20 12am".
C12_RangeForms ==
    AggReturned =>
        /\ \A k \in DOMAIN agg.spans :
              LET w == agg.spans[k]
                  sameDay == formatDate(w.start, timezone) \o " "
                             \o formatHour(w.start, timezone) \o "-"
                             \o formatHour(w.end, timezone)
                  twoDays == formatDate(w.start, timezone) \o " "
                             \o formatHour(w.start, timezone) \o " - "
                             \o formatDate(w.end, timezone) \o " "
                             \o formatHour(w.end, timezone)
              IN w.start # w.end =>
                    /\ agg.windows[k] = sameDay <=> SameLocalDate(w.start, w.end)
                    /\ agg.windows[k] = twoDays <=> ~SameLocalDate(w.start, w.end)
        /\ (timestamps = <<HourAt(23), HourAt(24)>> /\ Zone = "UTC") =>
              agg.windows = <<"Fri 1/19 11pm - Sat 1/20 12am">>

\* C13: a window is rendered "<Date> <Hour>", without a range, exactly when
\* its start instant equals its end instant; the UTC timestamps 14:00, 15:00
\* and 20:00 of 2024-01-19 give "Fri 1/19 2pm-3pm" and "Fri 1/19 8pm".
C13_SingleInstantNoRange ==
    AggReturned =>
        /\ \A k \in DOMAIN agg.spans :
              LET w == agg.spans[k] IN
              (agg.windows[k] = formatDate(w.start, timezone) \o " "
                                \o formatHour(w.start, timezone))
                  <=> w.start = w.end
        /\ (timestamps = <<HourAt(14), HourAt(15), HourAt(20)>> /\ Zone = "UTC") =>
              agg.windows = <<"Fri 1/19 2pm-3pm", "Fri 1/19 8pm">>

C13_Witness ==
    /\ AggReturned
    /\ timestamps = <<HourAt(14), HourAt(15), HourAt(20)>>
    /\ timezone = Defined("UTC")
    /\ agg.windows = <<"Fri 1/19 2pm-3pm", "Fri 1/19 8pm">>
    /\ agg.spans[2].start = agg.spans[2].end

Endpoints(spans) == [k \in DOMAIN spans |-> <<spans[k].start, spans[k].end>>]

\* C14: the grouping depends only on the raw UTC instants: in every zone the
\* engine recognizes (and with none) the call returns the same number of
\* windows with the same start and end instants.
C14_GroupingIgnoresZone ==
    AggReturned =>
        \A tz \in Timezones :
            ~InvalidTimeZone(tz) =>
                LET other == getSnowWindows(timestamps, tz) IN
                /\ other.pc = "done"
                /\ Len(other.spans) = Len(agg.spans)
                /\ Endpoints(other.spans) = Endpoints(agg.spans)

C14_Witness ==
    /\ AggReturned
    /\ timezone = Defined("Asia/Kolkata")
    /\ ~hour24
    /\ timestamps = <<HourAt(20), HourAt(23), HourAt(24)>>
    /\ agg.windows = <<"Sat 1/20 1am", "Sat 1/20 4am-5am">>
    /\ getSnowWindows(timestamps, Defined("UTC")).windows
          = <<"Fri 1/19 8pm", "Fri 1/19 11pm - Sat 1/20 12am">>

\* C16: rendering with no zone supplied is rendering in UTC: the strings are
\* those returned for the timezone "UTC" and those of the UTC-only renderer
\* (getUTCDay / getUTCMonth / getUTCDate / getUTCHours).
C16_NoZoneIsUTC ==
    (AggReturned /\ ~timezone.def) =>
        /\ agg.windows = getSnowWindows(timestamps, Defined("UTC")).windows
        /\ agg.windows = getSnowWindowsUTC(timestamps)

\* C18: for a non-decreasing input the window being built and every window
\* emitted have end >= start.
C18_EndNotBeforeStart ==
    (agg.pc \in {"loop", "done"} /\ NonDecreasing(timestamps)) =>
        /\ agg.windowStart <= agg.windowEnd
        /\ \A k \in DOMAIN agg.spans : agg.spans[k].start <= agg.spans[k].end

C18_Witness ==
    /\ AggReturned
    /\ timestamps = <<HourAt(14), HourAt(15), HourAt(20)>>
    /\ Len(agg.spans) = 2
    /\ agg.spans[1].start = HourAt(14) /\ agg.spans[1].end = HourAt(15)
    /\ agg.spans[2].start = HourAt(20) /\ agg.spans[2].end = HourAt(20)

(***************************************************************************)
(* Further claims about the decoder, checked under SpecDecode.             *)
(***************************************************************************)
Injective(s) == \A i, j \in DOMAIN s : s[i] = s[j] => i = j

\* C15: only the code 1 counts: a timeline has one entry per time index whose
\* value is exactly 1, and timestamps[t] is in the timeline of p if and only
\* if the value at t*N + p is 1; 0, 2, a negative code, null or no value at
\* that index never add a timestamp.
C15_OnlyOneIsPositive ==
    DidReturn =>
        \A p \in 0..(Len(locations) - 1) :
            LET axis == TimeAxis(covjson)
                ones == Positive(covjson, Len(locations), p)
            IN /\ Len(Timeline(p)) = Cardinality(ones)
               /\ Injective(axis) =>
                     \A t \in 0..(Len(axis) - 1) :
                         (\E k \in DOMAIN Timeline(p) : Timeline(p)[k] = axis[t + 1])
                             <=> t \in ones

C15_Witness ==
    /\ DidReturn
    /\ Len(locations) = 2
    /\ covjson.tValues = FlatAxis(Ascending(2))
    /\ covjson.values = <<JsNull, 1, 1, JsNull>>
    /\ Timeline(0) = <<HourAt(1)>>
    /\ Timeline(1) = <<HourAt(0)>>

RECURSIVE IsSubsequence(_, _)
IsSubsequence(a, b) ==
    IF a = <<>> THEN TRUE
    ELSE IF b = <<>> THEN FALSE
    ELSE IF Head(a) = Head(b) THEN IsSubsequence(Tail(a), Tail(b))
    ELSE IsSubsequence(a, Tail(b))

\* C17: decode never reorders: every timeline is a subsequence of the
\* flattened time axis, ordered or not, and is non-decreasing when the axis is.
C17_TimelinesKeepAxisOrder ==
    DidReturn =>
        \A p \in 0..(Len(dec.forecasts) - 1) :
            /\ IsSubsequence(Timeline(p), TimeAxis(covjson))
            /\ NonDecreasing(TimeAxis(covjson)) => NonDecreasing(Timeline(p))

C17_Witness ==
    /\ DidReturn
    /\ Len(locations) = 1
    /\ covjson.tValues = FlatAxis(Descending(2))
    /\ covjson.values = <<1, 1>>
    /\ Timeline(0) = <<HourAt(1), HourAt(0)>>

(***************************************************************************)
(* Interleaved aggregation: the calls of CallIds, each on a timeline of    *)
(* its own location, advance one loop iteration at a time in any order.    *)
(***************************************************************************)
CallInstants == {HourAt(14), HourAt(15), HourAt(20)}

CallTimestampSeqs ==
    {ts \in UNION {[1..n -> CallInstants] : n \in 0..MaxLen} : NonDecreasing(ts)}

CallTimezones == {Undefined, Defined("Asia/Tokyo")}

InitInterleaved ==
    /\ calls \in [CallIds -> [timestamps : CallTimestampSeqs,
                              timezone : CallTimezones,
                              frame : {AggIdle}]]
    /\ hour24 \in BOOLEAN
    /\ timestamps = <<>>
    /\ timezone = Undefined
    /\ agg = AggIdle
    /\ covjson = EmptyResponse
    /\ locations = <<>>
    /\ dec = NotCalled
    /\ mem = NoMemory
    /\ hook = NoHook
    /\ store = NoStore
    /\ cache = NoCache

CallEnter(c) ==
    /\ calls[c].frame.pc = "idle"
    /\ calls' = CallEntered(calls, c)
    /\ UNCHANGED <<decodeVars, aggVars, mem, appVars>>

CallStep(c) ==
    /\ calls[c].frame.pc = "loop"
    /\ calls[c].frame.i < Len(calls[c].timestamps)
    /\ calls' = CallStepped(calls, c)
    /\ UNCHANGED <<decodeVars, aggVars, mem, appVars>>

CallFinish(c) ==
    /\ calls[c].frame.pc = "loop"
    /\ calls[c].frame.i >= Len(calls[c].timestamps)
    /\ calls' = CallFinished(calls, c)
    /\ UNCHANGED <<decodeVars, aggVars, mem, appVars>>

NextInterleaved == \E c \in CallIds : CallEnter(c) \/ CallStep(c) \/ CallFinish(c)

SpecInterleaved == InitInterleaved /\ [][NextInterleaved]_vars

CallEnded(c) == calls[c].frame.pc \in {"done", "threw"}

\* C19: no state is kept across calls: however the loop iterations of the
\* calls are interleaved, a call that has ended produced the window list, and
\* the outcome, of the same call run alone on its own arguments.
C19_InterleavedAsAlone ==
    \A c \in CallIds :
        CallEnded(c) =>
            LET alone == getSnowWindows(calls[c].timestamps, calls[c].timezone)
            IN /\ calls[c].frame.pc = alone.pc
               /\ calls[c].frame.error = alone.error
               /\ calls[c].frame.windows = alone.windows

\* call 2 ran to its end, two windows, while call 1 was inside its loop
C19_Witness ==
    /\ calls[1].frame.pc = "loop"
    /\ calls[1].frame.i = 2
    /\ Len(calls[1].timestamps) = 3
    /\ calls[1].timestamps # calls[2].timestamps
    /\ calls[2].frame.pc = "done"
    /\ Len(calls[2].frame.windows) = 2
    /\ calls[2].frame.windows
          = getSnowWindows(calls[2].timestamps, calls[2].timezone).windows

(***************************************************************************)
(* Decode on the heap: two parseSnowForecasts calls on the same arguments, *)
(* a caller that writes once through each result, and an aggregation of    *)
(* one returned timeline.  covjson and locations keep the arguments as     *)
(* they were passed.                                                       *)
(***************************************************************************)
\* value arrays of length n: snow everywhere, but for at most one index
MemValueArrays(n) == {[i \in 1..n |-> IF i = z THEN 0 ELSE 1] : z \in 0..n}

MemResponses(N) ==
    UNION {[hasRange : {TRUE}, hasValues : {TRUE}, values : MemValueArrays(T * N),
            hasT : {TRUE}, tValues : {FlatAxis(Ascending(T))}] : T \in 1..MaxT}

LaterInstant == HourAt(48)

InitHeap ==
    /\ locations \in {RosterPrefix(N) : N \in 1..MaxN}
    /\ covjson \in MemResponses(Len(locations))
    /\ hour24 \in BOOLEAN
    /\ mem = InitMemory(covjson, locations)
    /\ dec = NotCalled
    /\ timestamps = <<>>
    /\ timezone = Undefined
    /\ agg = AggIdle
    /\ calls = NoCalls
    /\ hook = NoHook
    /\ store = NoStore
    /\ cache = NoCache

HeapFrame == UNCHANGED <<decodeVars, aggVars, calls, appVars>>

HeapDecode(k) ==
    /\ mem.results[k] = 0
    /\ mem' = DecodeOnHeap(mem, k)
    /\ HeapFrame

Writable(k) == mem.results[k] # 0 /\ ~mem.touched[k]

WritePush(k) ==
    /\ Writable(k)
    /\ \E p \in 0..(Len(ResultList(mem, k)) - 1) :
          mem' = PushTimestamp(mem, k, p, LaterInstant)
    /\ HeapFrame

WriteAssign(k) ==
    /\ Writable(k)
    /\ \E p \in 0..(Len(ResultList(mem, k)) - 1) : mem' = AssignTimestamps(mem, k, p)
    /\ HeapFrame

WritePop(k) ==
    /\ Writable(k)
    /\ mem' = PopForecast(mem, k)
    /\ HeapFrame

WriteLocation(k) ==
    /\ Writable(k)
    /\ \E p \in 0..(Len(ResultList(mem, k)) - 1) :
          mem' = RenameLocation(mem, k, p, "renamed")
    /\ HeapFrame

HeapAggregate(k) ==
    /\ mem.results[k] # 0
    /\ ~mem.windows.def
    /\ \E p \in 0..(Len(ResultList(mem, k)) - 1) : mem' = AggregateOnHeap(mem, k, p)
    /\ HeapFrame

NextHeap ==
    \E k \in DecodeIds :
        \/ HeapDecode(k)
        \/ WritePush(k)
        \/ WriteAssign(k)
        \/ WritePop(k)
        \/ WriteLocation(k)
        \/ HeapAggregate(k)

SpecHeap == InitHeap /\ [][NextHeap]_vars

\* the arguments as the heap holds them now
LocationsNow ==
    [i \in DOMAIN mem.lists[LocationListAddr] |-> mem.recs[mem.lists[LocationListAddr][i]]]
InputsUnchanged ==
    /\ LocationsNow = locations
    /\ mem.arrs[TimeAxisAddr] = TimeAxis(covjson)
    /\ mem.vals = covjson.values

\* result k read through its references
ResultValue(k) ==
    [i \in DOMAIN ResultList(mem, k) |->
        [location |-> mem.recs[ForecastObj(mem, k, i - 1).location],
         snowTimestamps |-> mem.arrs[ForecastObj(mem, k, i - 1).snowTimestamps]]]
ResultTimestamps(k) ==
    [i \in DOMAIN ResultList(mem, k) |-> ResultValue(k)[i].snowTimestamps]

Expected == parseSnowForecasts(covjson, locations).forecasts
ExpectedTimestamps == [i \in DOMAIN Expected |-> Expected[i].snowTimestamps]

Untouched(k) == mem.results[k] # 0 /\ ~mem.touched[k]

\* C20 as stated: whatever is written through one result, the arguments
\* stay as passed and a result the caller did not write through reads as
\* decode built it.
C20_Original ==
    /\ InputsUnchanged
    /\ \A k \in DecodeIds : Untouched(k) => ResultValue(k) = Expected

\* C20: decode and aggregate leave their arguments unchanged, two decode
\* calls on the same arguments return equal results, and the list, the
\* forecast objects and the timestamp arrays of a result are new: writing to
\* them through one result changes neither the other result nor the
\* arguments.  The location of a forecast is the caller's own record, the
\* same object in the location list and in every result, so only a write to
\* a location reached through a result shows in the arguments and in the
\* other result.
C20_FreshTimelines ==
    /\ ~mem.shared => InputsUnchanged
    /\ \A k \in DecodeIds :
          Untouched(k) =>
              /\ ResultTimestamps(k) = ExpectedTimestamps
              /\ ~mem.shared => ResultValue(k) = Expected
              /\ \A i \in DOMAIN ResultList(mem, k) :
                    ForecastObj(mem, k, i - 1).location = mem.lists[LocationListAddr][i]

\* both calls returned, a timestamp was pushed through result 1, a timeline
\* was aggregated, and result 2 reads as built
C20_Witness ==
    /\ Untouched(2)
    /\ mem.results[1] # 0
    /\ mem.touched[1]
    /\ ~mem.shared
    /\ Len(ResultList(mem, 1)) = Len(locations)
    /\ ResultTimestamps(1)[1] = Append(ExpectedTimestamps[1], LaterInstant)
    /\ ExpectedTimestamps[1] # <<>>
    /\ ResultValue(2) = Expected
    /\ mem.windows.def

(***************************************************************************)
(* Further claims about the aggregator.                                    *)
(***************************************************************************)
LastSpan == agg.spans[Len(agg.spans)]

\* C25: the call ends for every timestamp sequence; the loop index only
\* moves forward, one timestamp per iteration, and has passed every
\* timestamp when the call returns; a call that returns on a non-empty
\* sequence emits at least one window, the first starting at the first
\* timestamp and the last ending at the last timestamp.
C25_SinglePassEmitsAll ==
    /\ [](agg.pc = "loop" => agg.i \in 1..Len(timestamps))
    /\ [][(agg.pc = "loop" /\ agg'.pc = "loop") => agg'.i = agg.i + 1]_vars
    /\ []((AggReturned /\ timestamps # <<>>) =>
             /\ agg.i = Len(timestamps)
             /\ Len(agg.windows) >= 1
             /\ Len(agg.spans) = Len(agg.windows)
             /\ agg.spans[1].first = 1
             /\ agg.spans[1].start = timestamps[1]
             /\ LastSpan.last = Len(timestamps)
             /\ LastSpan.end = timestamps[Len(timestamps)])
    /\ <>AggEnded

C25_Witness ==
    /\ AggReturned
    /\ timestamps = <<HourAt(14), HourAt(15), HourAt(23)>>
    /\ agg.i = 3
    /\ Len(agg.windows) = 2
    /\ agg.spans[1].start = HourAt(14)
    /\ LastSpan.start = HourAt(23) /\ LastSpan.end = HourAt(23)

\* adjacent input pairs whose gap exceeds 3600 seconds
WideGaps(ts) == {i \in 1..(Len(ts) - 1) : ts[i + 1] - ts[i] > 3600}

\* C26: inside the loop the end of the current window is the input timestamp
\* just before the one examined next, and a call that returns on a non-empty
\* sequence returns 1 + (number of adjacent pairs more than 3600 seconds
\* apart) windows, in the zone-aware and in the UTC-only aggregator.
C26_WindowCount ==
    /\ agg.pc = "loop" => (agg.windowEnd = timestamps[agg.i] /\ agg.endIdx = agg.i)
    /\ (AggReturned /\ timestamps # <<>>) =>
          /\ Len(agg.windows) = 1 + Cardinality(WideGaps(timestamps))
          /\ Len(getSnowWindowsUTC(timestamps)) = 1 + Cardinality(WideGaps(timestamps))

C26_Witness ==
    /\ AggReturned
    /\ timestamps = <<HourAt(14), HourAt(15), HourAt(16) + 1>>
    /\ WideGaps(timestamps) = {2}
    /\ timestamps[3] - timestamps[1] > 3600
    /\ Len(agg.windows) = 2
    /\ Len(getSnowWindowsUTC(timestamps)) = 2

\* C27: a loop iteration on a timestamp earlier than the end of the current
\* window merges it: nothing is pushed, the start of the window stays and the
\* timestamp becomes the end of the window, which may then lie before the start.
C27_BackwardStepMerges ==
    [][(/\ agg.pc = "loop"
        /\ agg.i < Len(timestamps)
        /\ timestamps[agg.i + 1] < agg.windowEnd)
       => /\ agg'.pc = "loop"
          /\ agg'.windows = agg.windows
          /\ agg'.windowStart = agg.windowStart
          /\ agg'.windowEnd = timestamps[agg.i + 1]
          /\ agg'.endIdx = agg.i + 1]_vars

\* 20:00 then 14:00: one window, rendered from 20:00 to 14:00
C27_Witness ==
    /\ AggReturned
    /\ timestamps = <<HourAt(20), HourAt(14)>>
    /\ Len(agg.spans) = 1
    /\ agg.spans[1].start = HourAt(20)
    /\ agg.spans[1].end = HourAt(14)
    /\ agg.spans[1].end < agg.spans[1].start

(***************************************************************************)
(* POST /api/on-forecast-update (worker index.ts lines 196-278).  A step   *)
(* is the code up to the next await; the outcome of an awaited call (KV,   *)
(* EDR, Slack) is chosen at the step that issues it.  effects lists the    *)
(* calls issued, posts the messages handed to chat.postMessage; a message  *)
(* is kept as its lines, one [name, windows] per location, instead of the  *)
(* string joined from them.                                                *)
(***************************************************************************)
HookSecret == "hook-secret"
WebhookSecrets == {Undefined, Defined(""), Defined(HookSecret)}
SecretTokens == {Undefined, Defined(""), Defined(HookSecret), Defined("guess")}

\* a value that is neither undefined nor the empty string
Truthy(v) == v.def /\ v.val # ""

\* secretToken !== c.env.WEBHOOK_SECRET
Differs(token, secret) ==
    \/ token.def # secret.def
    \/ token.def /\ secret.def /\ token.val # secret.val

\* mutant: the token is compared only when a secret is configured
UnauthorizedIfSecretSet(secret, token) == Truthy(secret) /\ Differs(token, secret)

\* line 199
Unauthorized(secret, token) == ~Truthy(secret) \/ Differs(token, secret)

\* a location stored by POST /api/locations with the timezone of the request body
BadZoneLocation ==
    [id |-> "loc-9", name |-> "Olympus", lat |-> 18, lon |-> -134,
     timezone |-> Defined("Mars/Olympus_Mons")]

StoreLists ==
    {RosterPrefix(n) : n \in 0..MaxN} \cup {<<Roster[1], BadZoneLocation>>}

\* value arrays of length n: no snow, one index with snow, or at most one without
HookValueArrays(n) ==
    MemValueArrays(n) \cup {[i \in 1..n |-> IF i = o THEN 1 ELSE 0] : o \in 0..n}

\* what the EDR position query answers for N points
HookResponses(N) ==
    UNION {[hasRange : {TRUE}, hasValues : {TRUE}, values : HookValueArrays(T * N),
            hasT : {TRUE}, tValues : {FlatAxis(Ascending(T))}] : T \in 1..MaxT}
    \cup {[EmptyResponse EXCEPT !.hasRange = FALSE]}

HookStart ==
    [pc |-> "auth", secret |-> Undefined, token |-> Undefined, bodyJson |-> TRUE,
     flux |-> TRUE, slackToken |-> TRUE, slackChannel |-> TRUE,
     locations |-> Undefined, forecasts |-> Undefined, withSnow |-> <<>>,
     message |-> <<>>,
     effects |-> <<>>, posts |-> <<>>, failed |-> "none",
     status |-> 0, success |-> Undefined]

Respond(h, status, success) ==
    [h EXCEPT !.pc = "done", !.status = status, !.success = success]

\* mutant: the catch block answers 200
CaughtAnswersOk(h, step) == Respond([h EXCEPT !.failed = step], 200, Defined(TRUE))

\* lines 268-277: catch (error), 500 with success: false
Caught(h, step) == Respond([h EXCEPT !.failed = step], 500, Defined(FALSE))

Issue(h, call) == [h EXCEPT !.effects = Append(@, call)]

\* lines 90-93: one line per forecast; a getSnowWindows call that raises ends the map
formatSnowAlertMessage(fs) ==
    LET runs == [i \in DOMAIN fs |->
                    getSnowWindows(fs[i].snowTimestamps, fs[i].location.timezone)]
    IN IF \E i \in DOMAIN fs : runs[i].pc = "threw"
       THEN [threw |-> TRUE, lines |-> <<>>]
       ELSE [threw |-> FALSE,
             lines |-> [i \in DOMAIN fs |->
                           [name |-> fs[i].location.name, windows |-> runs[i].windows]]]

\* line 243: forecasts.filter((f) => f.snowTimestamps.length > 0)
WithSnow(fs) == SelectSeq(fs, LAMBDA f : Len(f.snowTimestamps) > 0)

\* lines 199-201
HookAuthorized(h) ==
    IF Unauthorized(h.secret, h.token) THEN Respond(h, 401, Undefined)
    ELSE [h EXCEPT !.pc = "body"]

\* line 203: await c.req.json() outside the try; a body that is no JSON
\* raises past the handler and the framework answers 500
HookBodyRead(h) ==
    IF h.bodyJson THEN [h EXCEPT !.pc = "list"]
    ELSE Respond([h EXCEPT !.failed = "body"], 500, Undefined)

\* lines 211-224: the locations read, up to the await of getLatestInitTime
HookListed(h, locs) ==
    LET g == [h EXCEPT !.locations = Defined(locs)] IN
    IF Len(locs) = 0 THEN Respond(g, 200, Defined(TRUE))
    ELSE IF ~h.flux THEN Caught(g, "flux")
    ELSE [g EXCEPT !.pc = "init"]

\* lines 237-266: from the EDR answer to the response or to the await of
\* postSlackMessage
HookDecoded(h, cj) ==
    LET out == parseSnowForecasts(cj, h.locations.val) IN
    IF out.status = "threw" THEN Caught(h, "decode")
    ELSE LET snow == WithSnow(out.forecasts)
             g == [h EXCEPT !.forecasts = Defined(out.forecasts), !.withSnow = snow]
         IN IF Len(snow) > 0 /\ h.slackToken /\ h.slackChannel
            THEN LET message == formatSnowAlertMessage(snow) IN
                 IF message.threw THEN Caught(g, "format")
                 ELSE [g EXCEPT !.pc = "post", !.message = message.lines]
            ELSE Respond(g, 200, Defined(TRUE))

InitHook ==
    /\ hook \in {[HookStart EXCEPT !.secret = secret, !.token = token,
                                   !.bodyJson = body, !.flux = flux,
                                   !.slackToken = st, !.slackChannel = sc] :
                    secret \in WebhookSecrets, token \in SecretTokens,
                    body \in BOOLEAN, flux \in BOOLEAN,
                    st \in BOOLEAN, sc \in BOOLEAN}
    /\ hour24 \in BOOLEAN
    /\ covjson = EmptyResponse
    /\ locations = <<>>
    /\ dec = NotCalled
    /\ timestamps = <<>>
    /\ timezone = Undefined
    /\ agg = AggIdle
    /\ calls = NoCalls
    /\ mem = NoMemory
    /\ store = NoStore
    /\ cache = NoCache

HookFrame == UNCHANGED <<decodeVars, aggVars, heapVars, store, cache>>

HookAuth ==
    /\ hook.pc = "auth"
    /\ hook' = HookAuthorized(hook)
    /\ HookFrame

HookBody ==
    /\ hook.pc = "body"
    /\ hook' = HookBodyRead(hook)
    /\ HookFrame

\* line 211: getAllLocations answers with the stored list, or the KV raises
HookList ==
    /\ hook.pc = "list"
    /\ \/ \E locs \in StoreLists : hook' = HookListed(Issue(hook, "kv.list"), locs)
       \/ hook' = Caught(Issue(hook, "kv.list"), "kv")
    /\ HookFrame

\* line 226: getLatestInitTime answers or raises
HookInitTime ==
    /\ hook.pc = "init"
    /\ \/ hook' = [Issue(hook, "edr.metadata") EXCEPT !.pc = "query"]
       \/ hook' = Caught(Issue(hook, "edr.metadata"), "init")
    /\ HookFrame

\* line 234: queryEdrPosition answers with a response or raises
HookQuery ==
    /\ hook.pc = "query"
    /\ \/ \E cj \in HookResponses(Len(hook.locations.val)) :
             hook' = HookDecoded(Issue(hook, "edr.position"), cj)
       \/ hook' = Caught(Issue(hook, "edr.position"), "edr")
    /\ HookFrame

\* lines 248-252: postSlackMessage is sent the message and answers or raises
HookPost ==
    /\ hook.pc = "post"
    /\ LET sent == [Issue(hook, "slack.post") EXCEPT !.posts = Append(@, hook.message)]
       IN \/ hook' = Respond(sent, 200, Defined(TRUE))
          \/ hook' = Caught(sent, "slack")
    /\ HookFrame

NextHook == HookAuth \/ HookBody \/ HookList \/ HookInitTime \/ HookQuery \/ HookPost

SpecHook == InitHook /\ [][NextHook]_vars

HookDone == hook.pc = "done"
SlackConfigured == hook.slackToken /\ hook.slackChannel
Count(seq, x) == Cardinality({i \in DOMAIN seq : seq[i] = x})

\* C21: with both Slack settings configured, a handler that decoded posts a
\* notification if and only if some decoded timeline is non-empty, and the
\* message lists exactly the locations with a non-empty timeline, in decode
\* order, each with at least one window.
C21_PostIffSnow ==
    (HookDone /\ SlackConfigured /\ hook.forecasts.def) =>
        LET fs == hook.forecasts.val
            snowy == {i \in DOMAIN fs : fs[i].snowTimestamps # <<>>}
        IN /\ Len(hook.posts) = (IF snowy = {} THEN 0 ELSE 1)
           /\ \A k \in DOMAIN hook.posts :
                 LET lines == hook.posts[k] IN
                 /\ Len(lines) = Cardinality(snowy)
                 /\ \A j \in DOMAIN lines :
                       /\ Len(lines[j].windows) >= 1
                       /\ \E i \in snowy :
                             /\ lines[j].name = fs[i].location.name
                             /\ Cardinality({m \in snowy : m < i}) = j - 1

\* C22: when the secret is not configured, or the X-Secret-Token header is
\* missing or differs from it, the handler answers 401 at once: no location
\* read, no EDR request, no Slack post.
C22_UnauthorizedDoesNothing ==
    (hook.pc \notin {"off", "auth"}
        /\ (~hook.secret.def \/ ~hook.token.def \/ hook.token.val # hook.secret.val)) =>
        /\ HookDone
        /\ hook.status = 401
        /\ hook.effects = <<>>
        /\ hook.posts = <<>>
        /\ ~hook.locations.def

C22_Witness ==
    /\ HookDone
    /\ hook.secret = Defined(HookSecret)
    /\ hook.token = Defined("guess")
    /\ hook.status = 401
    /\ hook.effects = <<>>

\* C28: with no stored location the handler answers success after the
\* location read alone; when the init-time fetch, the EDR query, decode or
\* the Slack post fails it answers 500 with success = false, having issued
\* each call at most once and none after the failure.
C28_EmptyAndFailures ==
    HookDone =>
        /\ (hook.locations.def /\ hook.locations.val = <<>>) =>
              /\ hook.status = 200
              /\ hook.success = Defined(TRUE)
              /\ hook.effects = <<"kv.list">>
              /\ hook.posts = <<>>
        /\ hook.failed \in {"init", "edr", "decode", "slack"} =>
              /\ hook.status = 500
              /\ hook.success = Defined(FALSE)
        /\ hook.failed = "init" => hook.effects = <<"kv.list", "edr.metadata">>
        /\ hook.failed \in {"edr", "decode"} =>
              hook.effects = <<"kv.list", "edr.metadata", "edr.position">>
        /\ hook.failed = "slack" =>
              hook.effects = <<"kv.list", "edr.metadata", "edr.position", "slack.post">>
        /\ \A e \in {"kv.list", "edr.metadata", "edr.position", "slack.post"} :
              Count(hook.effects, e) <= 1

C28_Witness ==
    /\ HookDone
    /\ hook.failed = "slack"
    /\ hook.status = 500
    /\ hook.success = Defined(FALSE)
    /\ Len(hook.posts) = 1
    /\ Count(hook.effects, "slack.post") = 1

(***************************************************************************)
(* The location store and the requests that write to it: POST              *)
(* /api/locations (lines 163-180) and POST /api/slack/commands (lines      *)
(* 281-340, 466-487).  A request is handled in one step.  A JSON value of  *)
(* a request body is a record [type, num, str]; the HMAC-SHA256 signature  *)
(* "v0=" + hex of (key, "v0:timestamp:body") is the tuple of what it was   *)
(* computed from, two signatures being equal only if key, timestamp and    *)
(* body are.                                                               *)
(***************************************************************************)
MaxRequests == 2    \* most requests handled in a behaviour

Num(n) == [type |-> "number", num |-> n, str |-> ""]
Str(t) == [type |-> "string", num |-> 0, str |-> t]
NaN == [type |-> "nan", num |-> 0, str |-> ""]
Absent == [type |-> "undefined", num |-> 0, str |-> ""]

\* Date.now() / 1000 when a slash command arrives
Now == HourAt(12)
FiveMinutes == 60 * 5

SigningKey == "signing-secret"
OtherKey == "other-key"

Sig(key, timestamp, body) == <<"v0", key, timestamp>> \o body

\* a signature header that is there and not the empty string
Given(signature) == signature.def /\ signature.val # <<>>

\* header strings of X-Slack-Request-Timestamp
Fresh == ToString(Now)
FiveMinutesOld == ToString(Now - FiveMinutes)
Stale == ToString(Now - FiveMinutes - 1)
TimestampHeaders == {Undefined, Defined(""), Defined("soon"), Defined(Fresh),
                     Defined(FiveMinutesOld), Defined(Stale)}

\* parseInt of a header string: NaN when it does not start with digits
parseInt(t) ==
    IF t = Fresh THEN Num(Now)
    ELSE IF t = FiveMinutesOld THEN Num(Now - FiveMinutes)
    ELSE IF t = Stale THEN Num(Now - FiveMinutes - 1)
    ELSE NaN

\* parseFloat of a command argument: the longest numeric prefix, NaN without one
parseFloat(t) ==
    CASE t = "39" -> Num(39)
      [] t = "39abc" -> Num(39)
      [] t = "90" -> Num(90)
      [] t = "91" -> Num(91)
      [] t = "-120" -> Num(-120)
      [] t = "-180" -> Num(-180)
      [] t = "-181" -> Num(-181)
      [] OTHER -> NaN

\* String.prototype.toLowerCase on the words of the model
toLowerCase(t) ==
    CASE t = "ADD" -> "add"
      [] t = "Tahoe" -> "tahoe"
      [] t = "TAHOE" -> "tahoe"
      [] OTHER -> t

\* mutant: no replay check
verifySlackSignatureAnyAge(signature, timestamp, body, signingSecret) ==
    IF ~Given(signature) \/ ~Truthy(timestamp) \/ signingSecret = "" THEN FALSE
    ELSE signature.val = Sig(signingSecret, timestamp.val, body)

\* slack.ts lines 8-40; NaN < fiveMinutesAgo is false
verifySlackSignature(signature, timestamp, body, signingSecret) ==
    IF ~Given(signature) \/ ~Truthy(timestamp) \/ signingSecret = "" THEN FALSE
    ELSE LET fiveMinutesAgo == Now - FiveMinutes
             t == parseInt(timestamp.val)
         IN IF t.type = "number" /\ t.num < fiveMinutesAgo THEN FALSE
            ELSE signature.val = Sig(signingSecret, timestamp.val, body)

SigningSecrets == {Undefined, Defined(""), Defined(SigningKey)}

\* parseSlackCommand(text): the words of the command text
Commands ==
    {<<"add", "Tahoe", "39", "-120">>, <<"ADD", "Tahoe", "90", "-180">>,
     <<"add", "Tahoe", "91", "-120">>, <<"add", "Tahoe", "39", "-181">>,
     <<"add", "Tahoe", "abc", "-120">>, <<"add", "Tahoe", "39abc", "-120">>,
     <<"add", "Tahoe">>, <<"remove", "TAHOE">>, <<"remove">>, <<"list">>, <<>>}

\* the signature header: none, empty, or one computed with a key over a
\* timestamp and a command that need not be those of this request
Signatures(args) ==
    {Undefined, Defined(<<>>)}
    \cup {Defined(Sig(key, t, body)) :
             key \in {SigningKey, OtherKey}, t \in {Fresh, Stale},
             body \in {args, <<"list">>}}

SlashRequests ==
    UNION {[signingSecret : SigningSecrets, signature : Signatures(args),
            timestamp : TimestampHeaders, args : {args}] : args \in Commands}

\* bodies of POST /api/locations
AddBodies ==
    [name : {Undefined, Defined(""), Defined("Tahoe")},
     lat : {Absent, Num(39), Num(95), Str("north")},
     lon : {Absent, Num(-120), Num(200)},
     timezone : {Undefined, Defined("Mars/Olympus_Mons")}]

\* what lookupTimezone answers: a zone, or undefined when the lookup fails
LookupAnswers == {Undefined, Defined("America/Los_Angeles")}

StoreStart ==
    [pc |-> "on", kv |-> <<>>, nextId |-> 1, count |-> 0, before |-> <<>>,
     last |-> [kind |-> "none", status |-> 0, unverified |-> FALSE,
               replayed |-> FALSE, coords |-> "none"]]

\* crypto.randomUUID() and SNOW_LOCATIONS.put(id, JSON.stringify(location))
Put(st, name, lat, lon, tz) ==
    [st EXCEPT !.kv = Append(@, [id |-> "id-" \o ToString(st.nextId), name |-> name,
                                 lat |-> lat, lon |-> lon, timezone |-> tz]),
               !.nextId = @ + 1]

Handled(st, next, last) ==
    [next EXCEPT !.count = st.count + 1, !.before = st.kv, !.last = last]

InRange(v, lo, hi) == v.type = "number" /\ lo <= v.num /\ v.num <= hi

\* lines 163-180
ApiAdded(st, body, lookup) ==
    IF ~Truthy(body.name) \/ body.lat.type = "undefined" \/ body.lon.type = "undefined"
    THEN [kv |-> st.kv, nextId |-> st.nextId, status |-> 400]
    ELSE LET tz == IF Truthy(body.timezone) THEN body.timezone ELSE lookup
             put == Put(st, body.name.val, body.lat, body.lon, tz)
         IN [kv |-> put.kv, nextId |-> put.nextId, status |-> 201]

\* lines 306-340: add
SlashAdded(st, args, lookup) ==
    IF Len(args) < 4 THEN [kv |-> st.kv, nextId |-> st.nextId, status |-> 200]
    ELSE LET lat == parseFloat(args[3])
             lon == parseFloat(args[4])
         IN IF lat.type = "nan" \/ lon.type = "nan" \/ lat.num < -90 \/ lat.num > 90
               \/ lon.num < -180 \/ lon.num > 180
            THEN [kv |-> st.kv, nextId |-> st.nextId, status |-> 200]
            ELSE LET put == Put(st, args[2], lat, lon, lookup)
                 IN [kv |-> put.kv, nextId |-> put.nextId, status |-> 200]

\* lines 466-487: remove the first location found by id or by name
SlashRemoved(st, args) ==
    IF Len(args) < 2 THEN [kv |-> st.kv, nextId |-> st.nextId, status |-> 200]
    ELSE LET found == {i \in DOMAIN st.kv :
                          \/ st.kv[i].id = args[2]
                          \/ toLowerCase(st.kv[i].name) = toLowerCase(args[2])}
         IN IF found = {} THEN [kv |-> st.kv, nextId |-> st.nextId, status |-> 200]
            ELSE LET first == CHOOSE i \in found : \A j \in found : i <= j
                 IN [kv |-> [k \in 1..(Len(st.kv) - 1) |->
                                IF k < first THEN st.kv[k] ELSE st.kv[k + 1]],
                     nextId |-> st.nextId, status |-> 200]

\* lines 281-305 and the commands: 401 unless the signature verifies
SlashHandled(st, req, lookup) ==
    IF \/ ~Truthy(req.signingSecret)
       \/ ~verifySlackSignature(req.signature, req.timestamp, req.args,
                                req.signingSecret.val)
    THEN [kv |-> st.kv, nextId |-> st.nextId, status |-> 401]
    ELSE LET action == IF Len(req.args) = 0 THEN "help" ELSE toLowerCase(req.args[1])
         IN IF action = "add" THEN SlashAdded(st, req.args, lookup)
            ELSE IF action = "remove" THEN SlashRemoved(st, req.args)
            ELSE [kv |-> st.kv, nextId |-> st.nextId, status |-> 200]

\* what a request was, beside what the handler made of it
Numerals == {"39", "90", "91", "-120", "-180", "-181"}

GoodCoords(lat, lon) == InRange(lat, -90, 90) /\ InRange(lon, -180, 180)

SlashFacts(req, status) ==
    LET old == req.timestamp.def /\ req.timestamp.val = Stale
        hmacOk == /\ Truthy(req.signingSecret)
                  /\ req.signature.def
                  /\ req.timestamp.def
                  /\ req.signature.val
                        = Sig(req.signingSecret.val, req.timestamp.val, req.args)
        isAdd == Len(req.args) >= 4 /\ toLowerCase(req.args[1]) = "add"
    IN [kind |-> "slash", status |-> status,
        unverified |-> \/ ~Truthy(req.signingSecret)
                       \/ ~req.signature.def
                       \/ ~req.timestamp.def
                       \/ old
                       \/ ~hmacOk,
        replayed |-> old /\ hmacOk,
        coords |-> IF ~isAdd THEN "none"
                   ELSE IF /\ req.args[3] \in Numerals
                           /\ req.args[4] \in Numerals
                           /\ GoodCoords(parseFloat(req.args[3]), parseFloat(req.args[4]))
                        THEN "good" ELSE "bad"]

ApiFacts(body, status) ==
    [kind |-> "api", status |-> status, unverified |-> FALSE, replayed |-> FALSE,
     coords |-> IF GoodCoords(body.lat, body.lon) THEN "good" ELSE "bad"]

InitStore ==
    /\ store = StoreStart
    /\ hour24 = FALSE
    /\ covjson = EmptyResponse
    /\ locations = <<>>
    /\ dec = NotCalled
    /\ timestamps = <<>>
    /\ timezone = Undefined
    /\ agg = AggIdle
    /\ calls = NoCalls
    /\ mem = NoMemory
    /\ hook = NoHook
    /\ cache = NoCache

StoreFrame == UNCHANGED <<decodeVars, aggVars, heapVars, hook, cache>>

ApiAddLocation ==
    /\ store.count < MaxRequests
    /\ \E body \in AddBodies, lookup \in LookupAnswers :
          LET out == ApiAdded(store, body, lookup) IN
          store' = Handled(store, [store EXCEPT !.kv = out.kv, !.nextId = out.nextId],
                           ApiFacts(body, out.status))
    /\ StoreFrame

SlashCommand ==
    /\ store.count < MaxRequests
    /\ \E req \in SlashRequests, lookup \in LookupAnswers :
          LET out == SlashHandled(store, req, lookup) IN
          store' = Handled(store, [store EXCEPT !.kv = out.kv, !.nextId = out.nextId],
                           SlashFacts(req, out.status))
    /\ StoreFrame

NextStore == ApiAddLocation \/ SlashCommand

SpecStore == InitStore /\ [][NextStore]_vars

\* C23: a slash command whose signing secret is unset, whose signature or
\* timestamp header is missing, whose timestamp is more than five minutes
\* old or whose HMAC does not match is answered 401 and leaves the store as
\* it was.
C23_UnverifiedChangesNothing ==
    (store.last.kind = "slash" /\ store.last.unverified) =>
        /\ store.last.status = 401
        /\ store.kv = store.before

\* a genuine signature replayed after more than five minutes, on a store
\* that holds a location
C23_Witness ==
    /\ store.last.kind = "slash"
    /\ store.last.replayed
    /\ store.last.status = 401
    /\ store.kv # <<>>
    /\ store.kv = store.before

\* C24: every stored location has a latitude in [-90, 90] and a longitude
\* in [-180, 180], and an add whose coordinates are out of range or not
\* numeric leaves the store unchanged, through POST /api/locations and
\* through /snowbot add.
C24_CoordinatesInRange ==
    /\ \A i \in DOMAIN store.kv : GoodCoords(store.kv[i].lat, store.kv[i].lon)
    /\ store.last.coords = "bad" => store.kv = store.before

(***************************************************************************)
(* The web client's cache of the ["locations"] query (react-app/api.ts).   *)
(* A world is the cached list, data, and the context each mutation got     *)
(* from its onMutate.  mutate() starts onMutate, which awaits              *)
(* cancelQueries and then runs to its end; the request then succeeds or    *)
(* fails and onSuccess or onError runs.  An id is [kind, n]: the string    *)
(* temp-n made from Date.now() = n, or the id srv-n of a stored location.  *)
(* alt[m] is the world in which mutation m was never issued: it takes the  *)
(* steps of every other mutation and none of m.                            *)
(***************************************************************************)
MaxTicks == 1    \* most milliseconds that pass on the client's clock

MutIds == {1, 2}

NoData == [def |-> FALSE, val |-> <<>>]
Data(list) == [def |-> TRUE, val |-> list]

TempId(now) == [kind |-> "temp", n |-> now]
ServerId(n) == [kind |-> "srv", n |-> n]
NoId == [kind |-> "none", n |-> 0]

NoContext == [previous |-> NoData, tempId |-> NoId]

\* old || []
OrEmpty(data) == IF data.def THEN data.val ELSE <<>>

\* api.ts lines 82-99: snapshot, temporary id, optimistic append
AddOnMutate(w, m, name, now) ==
    [data |-> Data(Append(OrEmpty(w.data), [id |-> TempId(now), name |-> name])),
     ctx |-> [w.ctx EXCEPT ![m] = [previous |-> w.data, tempId |-> TempId(now)]]]

\* api.ts lines 101-110: every entry with the temporary id becomes the created location
AddOnSuccess(w, m, created) ==
    IF w.ctx[m].tempId.kind = "none" THEN w
    ELSE [w EXCEPT !.data =
             Data([i \in DOMAIN OrEmpty(w.data) |->
                      IF OrEmpty(w.data)[i].id = w.ctx[m].tempId THEN created
                      ELSE OrEmpty(w.data)[i]])]

\* api.ts lines 111-116 and 148-153: the snapshot is written back when there is one
OnError(w, m) ==
    IF w.ctx[m].previous.def THEN [w EXCEPT !.data = w.ctx[m].previous] ELSE w

\* api.ts lines 138-146: snapshot, optimistic removal
DeleteOnMutate(w, m, id) ==
    [data |-> Data(SelectSeq(OrEmpty(w.data), LAMBDA loc : loc.id # id)),
     ctx |-> [w.ctx EXCEPT ![m] = [previous |-> w.data, tempId |-> NoId]]]

NoMutation ==
    [kind |-> "none", pc |-> "idle", name |-> "", target |-> NoId,
     created |-> [id |-> NoId, name |-> ""]]

\* what the query had loaded when the first mutation was issued
LoadedData == {NoData, Data(<<>>), Data(<<[id |-> ServerId(0), name |-> "Home"]>>)}

CacheStart(data) ==
    LET w == [data |-> data, ctx |-> [m \in MutIds |-> NoContext]] IN
    [pc |-> "on", world |-> w, alt |-> [m \in MutIds |-> w],
     muts |-> [m \in MutIds |-> NoMutation], now |-> 0, nextSrv |-> 1,
     loaded |-> data]

\* a callback of mutation ev.m, run on a world
Callback(w, ev) ==
    CASE ev.run = "add.onMutate" -> AddOnMutate(w, ev.m, ev.name, ev.now)
      [] ev.run = "add.onSuccess" -> AddOnSuccess(w, ev.m, ev.created)
      [] ev.run = "delete.onMutate" -> DeleteOnMutate(w, ev.m, ev.target)
      [] ev.run = "onError" -> OnError(w, ev.m)

Event(run, m, mut, now) ==
    [run |-> run, m |-> m, name |-> mut.name, target |-> mut.target,
     created |-> mut.created, now |-> now]

\* the callback in the world of the client and in the worlds without
\* another mutation, nothing in the world without ev.m
Stepped(c, ev) ==
    [c EXCEPT !.world = Callback(c.world, ev),
              !.alt = [k \in MutIds |->
                          IF k = ev.m THEN c.alt[k] ELSE Callback(c.alt[k], ev)]]

InitCache ==
    /\ cache \in {CacheStart(data) : data \in LoadedData}
    /\ hour24 = FALSE
    /\ covjson = EmptyResponse
    /\ locations = <<>>
    /\ dec = NotCalled
    /\ timestamps = <<>>
    /\ timezone = Undefined
    /\ agg = AggIdle
    /\ calls = NoCalls
    /\ mem = NoMemory
    /\ hook = NoHook
    /\ store = NoStore

CacheFrame == UNCHANGED <<decodeVars, aggVars, heapVars, hook, store>>

\* the ids the client shows
ShownIds == {OrEmpty(cache.world.data)[i].id : i \in DOMAIN OrEmpty(cache.world.data)}

\* useAddLocation().mutate({name, lat, lon}): onMutate starts and awaits cancelQueries
CacheAdd(m) ==
    /\ cache.muts[m].kind = "none"
    /\ cache' = [cache EXCEPT !.muts[m].kind = "add", !.muts[m].pc = "onMutate",
                              !.muts[m].name = "Place " \o ToString(m)]
    /\ CacheFrame

\* useDeleteLocation().mutate(id) on a location the client shows
CacheDelete(m) ==
    /\ cache.muts[m].kind = "none"
    /\ \E id \in ShownIds :
          cache' = [cache EXCEPT !.muts[m].kind = "delete", !.muts[m].pc = "onMutate",
                                 !.muts[m].target = id]
    /\ CacheFrame

\* the rest of onMutate, after the await; the request is sent next
CacheOnMutate(m) ==
    /\ cache.muts[m].pc = "onMutate"
    /\ LET mut == cache.muts[m]
           done == [cache EXCEPT !.muts[m].pc = "sent"]
       IN cache' = IF mut.kind = "add"
                   THEN Stepped(done, Event("add.onMutate", m, mut, cache.now))
                   ELSE Stepped(done, Event("delete.onMutate", m, mut, cache.now))
    /\ CacheFrame

\* a millisecond passes
CacheTick ==
    /\ cache.now < MaxTicks
    /\ cache' = [cache EXCEPT !.now = @ + 1]
    /\ CacheFrame

\* the response is ok: for an add, onSuccess with the location the server created
CacheSucceed(m) ==
    /\ cache.muts[m].pc = "sent"
    /\ LET mut == cache.muts[m]
           created == [id |-> ServerId(cache.nextSrv), name |-> mut.name]
           answered == [cache EXCEPT !.muts[m].pc = "ok",
                                     !.muts[m].created = created,
                                     !.nextSrv = @ + 1]
       IN cache' = IF mut.kind = "add"
                   THEN Stepped(answered,
                                Event("add.onSuccess", m, answered.muts[m], cache.now))
                   ELSE [cache EXCEPT !.muts[m].pc = "ok"]
    /\ CacheFrame

\* the request fails: onError
CacheFail(m) ==
    /\ cache.muts[m].pc = "sent"
    /\ cache' = Stepped([cache EXCEPT !.muts[m].pc = "failed"],
                        Event("onError", m, cache.muts[m], cache.now))
    /\ CacheFrame

NextCache ==
    \/ CacheTick
    \/ \E m \in MutIds :
          \/ CacheAdd(m)
          \/ CacheDelete(m)
          \/ CacheOnMutate(m)
          \/ CacheSucceed(m)
          \/ CacheFail(m)

SpecCache == InitCache /\ [][NextCache]_vars

CacheOn == cache.pc = "on"

\* C29: after a mutation has failed the cached list is the list of the world
\* in which that mutation was never issued, whatever other mutations
\* started or completed in between.
C29_RollbackKeepsOthers ==
    CacheOn =>
        \A m \in MutIds :
            (cache.muts[m].pc = "failed"
                /\ \A k \in MutIds : cache.muts[k].pc \in {"idle", "ok", "failed"}) =>
                cache.world.data = cache.alt[m].data

Adds == {m \in MutIds : cache.muts[m].kind = "add"}

\* C30: once every add has succeeded (and nothing else was issued) the cache
\* holds the loaded locations and exactly one entry per created location,
\* none with a temporary id.
C30_OneEntryPerCreated ==
    (CacheOn /\ Adds # {} /\ \A m \in MutIds :
                                \/ cache.muts[m].kind = "none"
                                \/ cache.muts[m].kind = "add" /\ cache.muts[m].pc = "ok") =>
        LET list == OrEmpty(cache.world.data) IN
        /\ cache.world.data.def
        /\ \A i \in DOMAIN list : list[i].id.kind = "srv"
        /\ \A m \in Adds : Count(list, cache.muts[m].created) = 1
        /\ Len(list) = Len(OrEmpty(cache.loaded)) + Cardinality(Adds)

====
